---- MODULE Spec2Model ----
(***************************************************************************)
(* Product catalog service (src/app.py): Flask handlers that coordinate a  *)
(* relational table of Product rows with an Azure blob container.          *)
(*                                                                         *)
(* Strings are sequences of one-character strings.  Every call a handler   *)
(* makes to the database or to the blob store is one atomic step of that   *)
(* handler; handlers of different requests interleave between the calls.   *)
(* A database transaction (statements up to and including the commit) is   *)
(* one step: it either commits or raises and leaves the table unchanged.   *)
(***************************************************************************)
EXTENDS Integers, Sequences, FiniteSets, TLC

\* ---------------------------------------------------------------- bounds
MaxId == 2          \* ids the table hands out before creates stop being accepted
NumRequests == 2    \* requests handled concurrently (handler threads)

Requests == 1..NumRequests

\* ------------------------------------------------------- values and inputs
\* Python's None, kept apart from every string (no string has this character)
None == <<"<None>">>

\* `not x` for a form field / column value that is None or a string
Truthy(s) == s # None /\ s # <<>>

\* form field `name`: omitted, empty, or a name
Names == {None, <<>>, <<"a">>}
\* form field `price`: omitted, empty, numeric text, non-numeric text
Prices == {None, <<>>, <<"1">>, <<"x">>}
\* form field `description`
Descriptions == {None, <<"d">>}
\* request.files.get("image"): no part, a part with an empty filename (a falsy
\* FileStorage), or a part with the given client-side filename
Files == {None, <<>>, <<"a">>, <<".", ".", "/", "a">>, <<"/">>, <<"b">>}

\* the requests drawn while several handlers run concurrently: well-formed
\* creates, without or with an image
ConcNames == {<<"a">>}
ConcPrices == {<<"1">>}
ConcDescriptions == {<<"d">>}
ConcFiles == {None, <<"a">>}

\* path parameter <int:product_id>
ProductIds == 1..MaxId

\* ------------------------------------------------------------ pure helpers
Digits == {"1"}

\* float(price): raises ValueError unless the text is a number
IsFloat(s) == s # None /\ Len(s) > 0 /\ \A i \in 1..Len(s) : s[i] \in Digits

RECURSIVE FloatOf(_)
FloatOf(s) == IF s = <<>> THEN 0 ELSE 10 * FloatOf(SubSeq(s, 1, Len(s) - 1)) + 1

\* werkzeug secure_filename, on ASCII input
SafeChars == {"a", "b", ".", "_", "-"}

ReplaceSep(s) == [i \in 1..Len(s) |-> IF s[i] = "/" THEN " " ELSE s[i]]

RECURSIVE LStrip(_, _)
LStrip(s, cs) == IF s # <<>> /\ Head(s) \in cs THEN LStrip(Tail(s), cs) ELSE s

RECURSIVE RStrip(_, _)
RStrip(s, cs) ==
    IF s # <<>> /\ s[Len(s)] \in cs THEN RStrip(SubSeq(s, 1, Len(s) - 1), cs) ELSE s

Strip(s, cs) == RStrip(LStrip(s, cs), cs)

\* "_".join(s.split()) on a string already stripped of outer whitespace
RECURSIVE JoinWords(_)
JoinWords(s) ==
    IF s = <<>> THEN <<>>
    ELSE IF Head(s) = " " THEN <<"_">> \o JoinWords(LStrip(s, {" "}))
    ELSE <<Head(s)>> \o JoinWords(Tail(s))

RECURSIVE KeepSafe(_)
KeepSafe(s) ==
    IF s = <<>> THEN <<>>
    ELSE IF Head(s) \in SafeChars THEN <<Head(s)>> \o KeepSafe(Tail(s))
    ELSE KeepSafe(Tail(s))

\* the client filename used as it is (secure_filename left out)
secure_filename_Raw(raw) == raw

secure_filename(raw) ==
    Strip(KeepSafe(JoinWords(Strip(ReplaceSep(raw), {" "}))), {".", "_"})

\* f"https://{account_name}.blob.core.windows.net/{AZURE_CONTAINER_NAME}/{filename}"
\* (the slash-free pieces of the prefix are single tokens)
UrlPrefix == <<"https:", "/", "/", "account.blob.core.windows.net", "/",
               "product-images", "/">>

ImageUrl(filename) == UrlPrefix \o filename

\* image_url.split("/")[-1]
RECURSIVE LastSegment(_)
LastSegment(url) ==
    IF url = <<>> THEN <<>>
    ELSE IF url[Len(url)] = "/" THEN <<>>
    ELSE LastSegment(SubSeq(url, 1, Len(url) - 1)) \o <<url[Len(url)]>>

\* ------------------------------------------------------------------- state
VARIABLES
    rows,       \* the Product table: set of committed rows
    nextId,     \* next value of the table's identity column
    blobs,      \* names of the blobs in container "product-images"
    putOk,      \* history: blob names whose upload_blob has returned
    pc,         \* pc[r]: where request r's handler stands
    loc,        \* loc[r]: the handler's local variables
    calls,      \* calls[r]: the store/database calls request r has issued
    resp        \* resp[r]: the response of request r, once returned

vars == <<rows, nextId, blobs, putOk, pc, loc, calls, resp>>

NoLocals == [name |-> None, price |-> None, description |-> None, file |-> None,
             product_id |-> 0, image_url |-> None, q |-> None]

NoResp == [op |-> "none", status |-> 0, body |-> "none", num_deleted |-> 0, products |-> {}]

Writes == {"insert", "row_delete", "delete_all"}
BlobCalls == {"put", "blob_delete"}

CallKinds(r) == {calls[r][i][1] : i \in 1..Len(calls[r])}

HasCall(r, kind, result) == \E i \in 1..Len(calls[r]) : calls[r][i] = <<kind, result>>

Init ==
    /\ rows = {}
    /\ nextId = 1
    /\ blobs = {}
    /\ putOk = {}
    /\ pc = [r \in Requests |-> "idle"]
    /\ loc = [r \in Requests |-> NoLocals]
    /\ calls = [r \in Requests |-> <<>>]
    /\ resp = [r \in Requests |-> NoResp]

Free(r) == pc[r] \in {"idle", "done"}

\* the handler returns: its locals go away, the response stays
Return(r, status, body) ==
    /\ pc' = [pc EXCEPT ![r] = "done"]
    /\ loc' = [loc EXCEPT ![r] = NoLocals]
    /\ resp' = [resp EXCEPT ![r].status = status, ![r].body = body]

\* a request reaches its handler: the response is open, nothing is called yet
Receive(r, op, label, locals) ==
    /\ Free(r)
    /\ pc' = [pc EXCEPT ![r] = label]
    /\ loc' = [loc EXCEPT ![r] = locals]
    /\ calls' = [calls EXCEPT ![r] = <<>>]
    /\ resp' = [resp EXCEPT ![r] = [NoResp EXCEPT !.op = op]]
    /\ UNCHANGED <<rows, nextId, blobs, putOk>>

Goto(r, label) ==
    /\ pc' = [pc EXCEPT ![r] = label]
    /\ UNCHANGED <<loc, resp>>

Log(r, kind, result) == calls' = [calls EXCEPT ![r] = Append(@, <<kind, result>>)]

\* creates accepted so far that may still take an id
PendingAdds == Cardinality({r \in Requests : pc[r] \in {"add_validate", "add_put", "add_insert"}})

\* ----------------------------------------------------- POST /products
AddReceiveFrom(r, names, prices, descriptions, files) ==
    /\ nextId + PendingAdds <= MaxId
    /\ \E n \in names, p \in prices, d \in descriptions, f \in files :
          Receive(r, "add", "add_validate",
                  [NoLocals EXCEPT !.name = n, !.price = p, !.description = d, !.file = f])

AddReceive(r) == AddReceiveFrom(r, ConcNames, ConcPrices, ConcDescriptions, ConcFiles)

AddReceiveWide(r) == AddReceiveFrom(r, Names, Prices, Descriptions, Files)

\* AddValidate with `and` in place of `or` in the required-field test
AddValidate_And(r) ==
    /\ pc[r] = "add_validate"
    /\ IF ~Truthy(loc[r].name) /\ ~Truthy(loc[r].price)
       THEN Return(r, 400, "Name and price are required")
       ELSE IF Truthy(loc[r].file) THEN Goto(r, "add_put") ELSE Goto(r, "add_insert")
    /\ UNCHANGED <<rows, nextId, blobs, putOk, calls>>

\* if not name or not price: 400; if file: ...
AddValidate(r) ==
    /\ pc[r] = "add_validate"
    /\ IF ~Truthy(loc[r].name) \/ ~Truthy(loc[r].price)
       THEN Return(r, 400, "Name and price are required")
       ELSE IF Truthy(loc[r].file) THEN Goto(r, "add_put") ELSE Goto(r, "add_insert")
    /\ UNCHANGED <<rows, nextId, blobs, putOk, calls>>

\* AddPut with the upload's exception swallowed: the handler goes on to the insert
AddPut_SwallowFailure(r) ==
    /\ pc[r] = "add_put"
    /\ LET filename == secure_filename(loc[r].file) IN
         \/ /\ filename # <<>>
            /\ blobs' = blobs \cup {filename}
            /\ putOk' = putOk \cup {filename}
            /\ Log(r, "put", "ok")
            /\ pc' = [pc EXCEPT ![r] = "add_insert"]
            /\ loc' = [loc EXCEPT ![r].image_url = ImageUrl(filename)]
            /\ UNCHANGED resp
         \/ /\ filename # <<>>
            /\ Log(r, "put", "fail")
            /\ pc' = [pc EXCEPT ![r] = "add_insert"]
            /\ loc' = [loc EXCEPT ![r].image_url = ImageUrl(filename)]
            /\ UNCHANGED <<blobs, putOk, resp>>
         \/ /\ filename = <<>>
            /\ Return(r, 500, "ValueError")
            /\ UNCHANGED <<blobs, putOk, calls>>
    /\ UNCHANGED <<rows, nextId>>

\* filename = secure_filename(file.filename); get_blob_client(...);
\* upload_blob(file, overwrite=True); image_url = f"https://..."
\* get_blob_client raises ValueError for an empty blob name, before any call
AddPut(r) ==
    /\ pc[r] = "add_put"
    /\ LET filename == secure_filename(loc[r].file) IN
         \/ /\ filename # <<>>
            /\ blobs' = blobs \cup {filename}
            /\ putOk' = putOk \cup {filename}
            /\ Log(r, "put", "ok")
            /\ pc' = [pc EXCEPT ![r] = "add_insert"]
            /\ loc' = [loc EXCEPT ![r].image_url = ImageUrl(filename)]
            /\ UNCHANGED resp
         \/ /\ filename # <<>>
            /\ Log(r, "put", "fail")
            /\ Return(r, 500, "StorageError")
            /\ UNCHANGED <<blobs, putOk>>
         \/ /\ filename = <<>>
            /\ Return(r, 500, "ValueError")
            /\ UNCHANGED <<blobs, putOk, calls>>
    /\ UNCHANGED <<rows, nextId>>

\* AddInsert with a compensating delete of the uploaded blob when the insert fails
AddInsert_Compensate(r) ==
    /\ pc[r] = "add_insert"
    /\ \/ /\ ~IsFloat(loc[r].price)
          /\ Return(r, 500, "ValueError")
          /\ UNCHANGED <<rows, nextId, calls, blobs>>
       \/ /\ IsFloat(loc[r].price)
          /\ rows' = rows \cup {[id |-> nextId, name |-> loc[r].name,
                                 price |-> FloatOf(loc[r].price),
                                 description |-> loc[r].description,
                                 image_url |-> loc[r].image_url]}
          /\ nextId' = nextId + 1
          /\ Log(r, "insert", "ok")
          /\ Return(r, 201, "Product added successfully")
          /\ UNCHANGED blobs
       \/ /\ IsFloat(loc[r].price)
          /\ Log(r, "insert", "fail")
          /\ Return(r, 500, "RepositoryError")
          /\ rows' = rows
          /\ blobs' = IF Truthy(loc[r].image_url) THEN blobs \ {LastSegment(loc[r].image_url)} ELSE blobs
          /\ UNCHANGED nextId
    /\ UNCHANGED putOk

\* AddInsert whose row stays in the table when the commit is reported as failed
AddInsert_RowOnFail(r) ==
    /\ pc[r] = "add_insert"
    /\ \/ /\ ~IsFloat(loc[r].price)
          /\ Return(r, 500, "ValueError")
          /\ UNCHANGED <<rows, nextId, calls, blobs>>
       \/ /\ IsFloat(loc[r].price)
          /\ rows' = rows \cup {[id |-> nextId, name |-> loc[r].name,
                                 price |-> FloatOf(loc[r].price),
                                 description |-> loc[r].description,
                                 image_url |-> loc[r].image_url]}
          /\ nextId' = nextId + 1
          /\ Log(r, "insert", "ok")
          /\ Return(r, 201, "Product added successfully")
          /\ UNCHANGED blobs
       \/ /\ IsFloat(loc[r].price)
          /\ Log(r, "insert", "fail")
          /\ Return(r, 500, "RepositoryError")
          /\ rows' = rows \cup {[id |-> nextId, name |-> loc[r].name, price |-> FloatOf(loc[r].price), description |-> loc[r].description, image_url |-> loc[r].image_url]}
          /\ UNCHANGED blobs
          /\ UNCHANGED nextId
    /\ UNCHANGED putOk

\* Product(..., price=float(price), ...); db.session.add; db.session.commit
AddInsert(r) ==
    /\ pc[r] = "add_insert"
    /\ \/ /\ ~IsFloat(loc[r].price)
          /\ Return(r, 500, "ValueError")
          /\ UNCHANGED <<rows, nextId, calls>>
       \/ /\ IsFloat(loc[r].price)
          /\ rows' = rows \cup {[id |-> nextId, name |-> loc[r].name,
                                 price |-> FloatOf(loc[r].price),
                                 description |-> loc[r].description,
                                 image_url |-> loc[r].image_url]}
          /\ nextId' = nextId + 1
          /\ Log(r, "insert", "ok")
          /\ Return(r, 201, "Product added successfully")
       \/ /\ IsFloat(loc[r].price)
          /\ Log(r, "insert", "fail")
          /\ Return(r, 500, "RepositoryError")
          /\ UNCHANGED <<rows, nextId>>
    /\ UNCHANGED <<blobs, putOk>>

\* ------------------------------------------------------ GET /products
\* GetProducts without the `if p.image_url else ""` default
GetProducts_RawUrl(table) ==
    {[id |-> p.id, name |-> p.name, price |-> p.price, description |-> p.description,
      image_url |-> p.image_url] : p \in table}

\* the JSON array of get_products (the order is the table's, so a set here)
GetProducts(table) ==
    {[id |-> p.id, name |-> p.name, price |-> p.price, description |-> p.description,
      image_url |-> IF Truthy(p.image_url) THEN p.image_url ELSE <<>>] : p \in table}

ListReceive(r) == Receive(r, "list", "list_query", NoLocals)

\* products = Product.query.all(); return jsonify([...])
ListQuery(r) ==
    /\ pc[r] = "list_query"
    /\ \/ /\ Log(r, "select_all", "ok")
          /\ pc' = [pc EXCEPT ![r] = "done"]
          /\ loc' = [loc EXCEPT ![r] = NoLocals]
          /\ resp' = [resp EXCEPT ![r].status = 200, ![r].body = "products",
                                  ![r].products = GetProducts(rows)]
       \/ /\ Log(r, "select_all", "fail")
          /\ Return(r, 500, "RepositoryError")
    /\ UNCHANGED <<rows, nextId, blobs, putOk>>

\* ------------------------------------------------ GET /products/search
\* query parameter q: absent, empty, blank, or text
Queries == {None, <<>>, <<" ">>, <<"a">>, <<"A">>, <<"b">>, <<"a", "b">>,
            <<" ", "a">>, <<"_">>, <<"%">>}

Whitespace == {" "}

\* str.lower(), as SQL lower() on both sides of the ILIKE
LowerChar(c) == IF c = "A" THEN "a" ELSE IF c = "B" THEN "b" ELSE c

Lower(s) == [i \in 1..Len(s) |-> LowerChar(s[i])]

\* SQL LIKE: % stands for any string, _ for any one character
RECURSIVE LikeMatch(_, _)
LikeMatch(s, pat) ==
    IF pat = <<>> THEN s = <<>>
    ELSE IF Head(pat) = "%"
         THEN LikeMatch(s, Tail(pat)) \/ (s # <<>> /\ LikeMatch(Tail(s), pat))
    ELSE IF Head(pat) = "_"
         THEN s # <<>> /\ LikeMatch(Tail(s), Tail(pat))
    ELSE s # <<>> /\ Head(s) = Head(pat) /\ LikeMatch(Tail(s), Tail(pat))

\* Product.name.ilike(pattern)
ILike(s, pat) == LikeMatch(Lower(s), Lower(pat))

\* request.args.get("q", "").strip()
QueryOf(q) == Strip(IF q = None THEN <<>> ELSE q, Whitespace)

\* Product.query.filter(Product.name.ilike(f"%{query}%")).all(), as JSON
SearchResults(query, table) ==
    {[id |-> p.id, name |-> p.name, price |-> p.price, description |-> p.description,
      image_url |-> IF Truthy(p.image_url) THEN p.image_url ELSE <<>>] :
        p \in {x \in table : ILike(x.name, <<"%">> \o query \o <<"%">>)}}

SearchReceive(r) ==
    \E q \in Queries : Receive(r, "search", "search_query", [NoLocals EXCEPT !.q = q])

\* SearchQuery answering an empty query with an empty result
SearchQuery_EmptyIsNoResult(r) ==
    /\ pc[r] = "search_query"
    /\ LET query == QueryOf(loc[r].q)
           kind == IF query = <<>> THEN "select_all" ELSE "select_like" IN
         \/ /\ Log(r, kind, "ok")
            /\ pc' = [pc EXCEPT ![r] = "done"]
            /\ loc' = [loc EXCEPT ![r] = NoLocals]
            /\ resp' = [resp EXCEPT ![r].status = 200, ![r].body = "products",
                                    ![r].products = IF query = <<>> THEN {}
                                                    ELSE SearchResults(query, rows)]
         \/ /\ Log(r, kind, "fail")
            /\ Return(r, 500, "RepositoryError")
    /\ UNCHANGED <<rows, nextId, blobs, putOk>>

\* query = ...strip(); if not query: return get_products(); ...filter(ilike).all()
SearchQuery(r) ==
    /\ pc[r] = "search_query"
    /\ LET query == QueryOf(loc[r].q)
           kind == IF query = <<>> THEN "select_all" ELSE "select_like" IN
         \/ /\ Log(r, kind, "ok")
            /\ pc' = [pc EXCEPT ![r] = "done"]
            /\ loc' = [loc EXCEPT ![r] = NoLocals]
            /\ resp' = [resp EXCEPT ![r].status = 200, ![r].body = "products",
                                    ![r].products = IF query = <<>> THEN GetProducts(rows)
                                                    ELSE SearchResults(query, rows)]
         \/ /\ Log(r, kind, "fail")
            /\ Return(r, 500, "RepositoryError")
    /\ UNCHANGED <<rows, nextId, blobs, putOk>>

\* ------------------------------------------- DELETE /products/<product_id>
DelReceive(r) ==
    \E id \in ProductIds :
        Receive(r, "delete", "del_lookup", [NoLocals EXCEPT !.product_id = id])

\* DelLookup without the `if not product` test: a missing row goes on to the delete
DelLookup_NoCheck(r) ==
    /\ pc[r] = "del_lookup"
    /\ LET found == {p \in rows : p.id = loc[r].product_id} IN
         \/ /\ found = {}
            /\ Log(r, "get", "ok")
            /\ Goto(r, "del_row")
         \/ /\ \E p \in found :
                 /\ loc' = [loc EXCEPT ![r].image_url = p.image_url]
                 /\ pc' = [pc EXCEPT ![r] =
                             IF Truthy(p.image_url) THEN "del_blob" ELSE "del_row"]
            /\ Log(r, "get", "ok")
            /\ UNCHANGED resp
         \/ /\ Log(r, "get", "fail")
            /\ Return(r, 500, "RepositoryError")
    /\ UNCHANGED <<rows, nextId, blobs, putOk>>

\* product = Product.query.get(product_id); if not product: 404
DelLookup(r) ==
    /\ pc[r] = "del_lookup"
    /\ LET found == {p \in rows : p.id = loc[r].product_id} IN
         \/ /\ found = {}
            /\ Log(r, "get", "ok")
            /\ Return(r, 404, "Product not found")
         \/ /\ \E p \in found :
                 /\ loc' = [loc EXCEPT ![r].image_url = p.image_url]
                 /\ pc' = [pc EXCEPT ![r] =
                             IF Truthy(p.image_url) THEN "del_blob" ELSE "del_row"]
            /\ Log(r, "get", "ok")
            /\ UNCHANGED resp
         \/ /\ Log(r, "get", "fail")
            /\ Return(r, 500, "RepositoryError")
    /\ UNCHANGED <<rows, nextId, blobs, putOk>>

\* DelBlob that also clears image_url on the row once the blob is gone
DelBlob_ClearsUrl(r) ==
    /\ pc[r] = "del_blob"
    /\ LET blob_name == LastSegment(loc[r].image_url) IN
         \/ /\ blob_name \in blobs
            /\ blobs' = blobs \ {blob_name}
            /\ rows' = {IF p.id = loc[r].product_id THEN [p EXCEPT !.image_url = None] ELSE p :
                          p \in rows}
            /\ Log(r, "blob_delete", "ok")
            /\ Goto(r, "del_row")
         \/ /\ blob_name \notin blobs
            /\ Log(r, "blob_delete", "notfound")
            /\ Return(r, 500, "ResourceNotFoundError")
            /\ UNCHANGED <<blobs, rows>>
         \/ /\ Log(r, "blob_delete", "fail")
            /\ Return(r, 500, "StorageError")
            /\ UNCHANGED <<blobs, rows>>
    /\ UNCHANGED <<nextId, putOk>>

\* DelBlob with the storage exception swallowed: the handler goes on to the row
DelBlob_SwallowFailure(r) ==
    /\ pc[r] = "del_blob"
    /\ LET blob_name == LastSegment(loc[r].image_url) IN
         \/ /\ blob_name \in blobs
            /\ blobs' = blobs \ {blob_name}
            /\ Log(r, "blob_delete", "ok")
            /\ Goto(r, "del_row")
         \/ /\ blob_name \notin blobs
            /\ Log(r, "blob_delete", "notfound")
            /\ Return(r, 500, "ResourceNotFoundError")
            /\ UNCHANGED blobs
         \/ /\ Log(r, "blob_delete", "fail")
            /\ Goto(r, "del_row")
            /\ UNCHANGED blobs
    /\ UNCHANGED <<rows, nextId, putOk>>

\* blob_name = product.image_url.split("/")[-1]; get_blob_client(...).delete_blob()
\* delete_blob raises ResourceNotFoundError when the container has no such blob
DelBlob(r) ==
    /\ pc[r] = "del_blob"
    /\ LET blob_name == LastSegment(loc[r].image_url) IN
         \/ /\ blob_name \in blobs
            /\ blobs' = blobs \ {blob_name}
            /\ Log(r, "blob_delete", "ok")
            /\ Goto(r, "del_row")
         \/ /\ blob_name \notin blobs
            /\ Log(r, "blob_delete", "notfound")
            /\ Return(r, 500, "ResourceNotFoundError")
            /\ UNCHANGED blobs
         \/ /\ Log(r, "blob_delete", "fail")
            /\ Return(r, 500, "StorageError")
            /\ UNCHANGED blobs
    /\ UNCHANGED <<rows, nextId, putOk>>

\* db.session.delete(product); db.session.commit()
\* (a DELETE that matches no row, the row being gone already, only warns)
DelRow(r) ==
    /\ pc[r] = "del_row"
    /\ \/ /\ rows' = {p \in rows : p.id # loc[r].product_id}
          /\ Log(r, "row_delete", "ok")
          /\ Return(r, 200, "Product deleted successfully")
       \/ /\ Log(r, "row_delete", "fail")
          /\ Return(r, 500, "RepositoryError")
          /\ UNCHANGED rows
    /\ UNCHANGED <<nextId, blobs, putOk>>

\* --------------------------------------------- DELETE /products/delete_all
DelAllReceive(r) == Receive(r, "delete_all", "del_all", NoLocals)

\* DelAll that also deletes the blobs the rows refer to
DelAll_WithBlobs(r) ==
    /\ pc[r] = "del_all"
    /\ \/ /\ rows' = {}
          /\ blobs' = blobs \ {LastSegment(p.image_url) : p \in {q \in rows : Truthy(q.image_url)}}
          /\ Log(r, "delete_all", "ok")
          /\ pc' = [pc EXCEPT ![r] = "done"]
          /\ loc' = [loc EXCEPT ![r] = NoLocals]
          /\ resp' = [resp EXCEPT ![r].status = 200, ![r].body = "Deleted products",
                                  ![r].num_deleted = Cardinality(rows)]
       \/ /\ Log(r, "delete_all", "fail")
          /\ Return(r, 500, "RepositoryError")
          /\ UNCHANGED <<rows, blobs>>
    /\ UNCHANGED <<nextId, putOk>>

\* DelAll that counts the rows after the delete
DelAll_CountAfter(r) ==
    /\ pc[r] = "del_all"
    /\ \/ /\ rows' = {}
          /\ Log(r, "delete_all", "ok")
          /\ pc' = [pc EXCEPT ![r] = "done"]
          /\ loc' = [loc EXCEPT ![r] = NoLocals]
          /\ resp' = [resp EXCEPT ![r].status = 200, ![r].body = "Deleted products",
                                  ![r].num_deleted = Cardinality(rows')]
       \/ /\ Log(r, "delete_all", "fail")
          /\ Return(r, 500, "RepositoryError")
          /\ UNCHANGED rows
    /\ UNCHANGED <<nextId, blobs, putOk>>

\* num_deleted = db.session.query(Product).delete(); db.session.commit()
DelAll(r) ==
    /\ pc[r] = "del_all"
    /\ \/ /\ rows' = {}
          /\ Log(r, "delete_all", "ok")
          /\ pc' = [pc EXCEPT ![r] = "done"]
          /\ loc' = [loc EXCEPT ![r] = NoLocals]
          /\ resp' = [resp EXCEPT ![r].status = 200, ![r].body = "Deleted products",
                                  ![r].num_deleted = Cardinality(rows)]
       \/ /\ Log(r, "delete_all", "fail")
          /\ Return(r, 500, "RepositoryError")
          /\ UNCHANGED rows
    /\ UNCHANGED <<nextId, blobs, putOk>>

\* ------------------------------------------------------------ specifications
\* handlers of NumRequests requests run concurrently
Next ==
    \E r \in Requests :
        \/ AddReceive(r)
        \/ AddValidate(r)
        \/ AddPut(r)
        \/ AddInsert(r)
        \/ DelReceive(r)
        \/ DelLookup(r)
        \/ DelBlob(r)
        \/ DelRow(r)
        \/ DelAllReceive(r)
        \/ DelAll(r)

Spec == Init /\ [][Next]_vars

\* one request at a time, over the full input sets
NextSeq ==
    \/ AddReceiveWide(1)
    \/ AddValidate(1)
    \/ AddPut(1)
    \/ AddInsert(1)
    \/ DelReceive(1)
    \/ DelLookup(1)
    \/ DelBlob(1)
    \/ DelRow(1)
    \/ DelAllReceive(1)
    \/ DelAll(1)
    \/ ListReceive(1)
    \/ ListQuery(1)
    \/ SearchReceive(1)
    \/ SearchQuery(1)

SpecSeq == Init /\ [][NextSeq]_vars

\* the call request r issues in this step, if it issues one
Issued(r) == IF Len(calls'[r]) > Len(calls[r]) THEN calls'[r][Len(calls'[r])] ELSE <<"none", "none">>

\* no call of this step fails for a network, authentication or database reason
NoFailure == \A r \in Requests : Issued(r)[2] # "fail"

\* one request at a time, the blob store and the database always reachable
NextSeqNoFail ==
    \/ AddReceiveWide(1) /\ NoFailure
    \/ AddValidate(1) /\ NoFailure
    \/ AddPut(1) /\ NoFailure
    \/ AddInsert(1) /\ NoFailure
    \/ DelReceive(1) /\ NoFailure
    \/ DelLookup(1) /\ NoFailure
    \/ DelBlob(1) /\ NoFailure
    \/ DelRow(1) /\ NoFailure
    \/ DelAllReceive(1) /\ NoFailure
    \/ DelAll(1) /\ NoFailure

SpecSeqNoFail == Init /\ [][NextSeqNoFail]_vars

\* creates and single deletes only, one request at a time, no call failing
NextSeqCreateDelete ==
    \/ AddReceiveWide(1) /\ NoFailure
    \/ AddValidate(1) /\ NoFailure
    \/ AddPut(1) /\ NoFailure
    \/ AddInsert(1) /\ NoFailure
    \/ DelReceive(1) /\ NoFailure
    \/ DelLookup(1) /\ NoFailure
    \/ DelBlob(1) /\ NoFailure
    \/ DelRow(1) /\ NoFailure

SpecSeqCreateDelete == Init /\ [][NextSeqCreateDelete]_vars

\* the read handlers over catalogs of up to MaxSearchRows products
MaxSearchRows == 2

SearchNames == {<<"a">>, <<"A", "b">>, <<"b">>, <<"b", " ", "a">>}

SearchTables ==
    {t \in SUBSET [id : 1..MaxSearchRows, name : SearchNames, price : {1},
                   description : {None}, image_url : {None}] :
        \A x \in t, y \in t : x.id = y.id => x = y}

InitSearch ==
    /\ rows \in SearchTables
    /\ nextId = MaxSearchRows + 1
    /\ blobs = {}
    /\ putOk = {}
    /\ pc = [r \in Requests |-> "idle"]
    /\ loc = [r \in Requests |-> NoLocals]
    /\ calls = [r \in Requests |-> <<>>]
    /\ resp = [r \in Requests |-> NoResp]

NextSearch ==
    \/ ListReceive(1)
    \/ ListQuery(1)
    \/ SearchReceive(1)
    \/ SearchQuery(1)

SpecSearch == InitSearch /\ [][NextSearch]_vars

\* create-with-image over every client filename of up to MaxNameLen characters,
\* followed by deletes and further well-formed creates
MaxNameLen == 3

FilenameChars == {"a", ".", "/", " ", "_", "?"}

RawFilenames == UNION {[1..n -> FilenameChars] : n \in 1..MaxNameLen}

\* a create with an image part has passed the required-field test
InitRoundTrip ==
    /\ rows = {}
    /\ nextId = 1
    /\ blobs = {}
    /\ putOk = {}
    /\ pc = [r \in Requests |-> IF r = 1 THEN "add_put" ELSE "idle"]
    /\ \E raw \in RawFilenames :
          loc = [r \in Requests |->
                    IF r = 1 THEN [NoLocals EXCEPT !.name = <<"a">>, !.price = <<"1">>,
                                                   !.file = raw]
                    ELSE NoLocals]
    /\ calls = [r \in Requests |-> <<>>]
    /\ resp = [r \in Requests |-> IF r = 1 THEN [NoResp EXCEPT !.op = "add"] ELSE NoResp]

NextRoundTrip ==
    \/ AddReceive(1)
    \/ AddValidate(1)
    \/ AddPut(1)
    \/ AddInsert(1)
    \/ DelReceive(1)
    \/ DelLookup(1)
    \/ DelBlob(1)
    \/ DelRow(1)

SpecRoundTrip == InitRoundTrip /\ [][NextRoundTrip]_vars

\* -------------------------------------------------------------------- claims
\* request r takes a step
Stepped(r) == pc'[r] # pc[r]

\* C1: a create whose upload failed has answered 500 StorageError and has
\* issued no insert; a create with an image reaches its insert only with its
\* own successful upload as the one call before it.
C1_InsertOnlyAfterPut ==
    \A r \in Requests :
        /\ HasCall(r, "put", "fail") =>
              /\ pc[r] = "done"
              /\ resp[r].status = 500 /\ resp[r].body = "StorageError"
              /\ "insert" \notin CallKinds(r)
        /\ (pc[r] = "add_insert" /\ Truthy(loc[r].file)) => calls[r] = << <<"put", "ok">> >>
        /\ \A i \in 1..Len(calls[r]) :
              (calls[r][i][1] = "insert" /\ "put" \in CallKinds(r)) =>
                  (i = 2 /\ calls[r][1] = <<"put", "ok">>)

C1_Witness ==
    /\ \E r \in Requests : HasCall(r, "put", "fail") /\ pc[r] = "done"
    /\ \E r \in Requests : calls[r] = << <<"put", "ok">>, <<"insert", "ok">> >>

\* C2 (as claimed): every step of a create whose price is present but not
\* numeric ends the request with 400, and the request issues no call and
\* changes neither the rows nor the blobs.
C2_BadPriceIs400 ==
    [][\A r \in Requests :
          (/\ pc[r] \in {"add_validate", "add_put", "add_insert"}
           /\ Truthy(loc[r].price) /\ ~IsFloat(loc[r].price)
           /\ Stepped(r)) =>
              /\ pc'[r] = "done" /\ resp'[r].status = 400
              /\ calls'[r] = <<>>
              /\ rows' = rows /\ blobs' = blobs]_vars

\* C3: a create whose name or price is omitted or empty answers 400 at the
\* required-field test, with or without an image part; it issues no call and
\* the rows and the blobs stay as they were.
C3_MissingFieldIs400 ==
    [][\A r \in Requests :
          (/\ pc[r] = "add_validate"
           /\ (~Truthy(loc[r].name) \/ ~Truthy(loc[r].price))
           /\ Stepped(r)) =>
              /\ pc'[r] = "done" /\ resp'[r].status = 400
              /\ calls'[r] = <<>>
              /\ rows' = rows /\ blobs' = blobs]_vars

C3_Witness ==
    \E r \in Requests :
        /\ resp[r].op = "add" /\ resp[r].status = 400 /\ pc[r] = "done"
        /\ rows # {} /\ blobs # {}

\* C4 (as claimed): a DeleteOne of a row with an image, none of whose calls
\* fails with a storage or database error, deletes the blob named by the last
\* segment of image_url, and returns 200 with the row gone from List.
C4_DeleteRemovesRowAndBlob ==
    [][\A r \in Requests :
          (/\ pc[r] \in {"del_blob", "del_row"}
           /\ Truthy(loc[r].image_url)
           /\ Stepped(r)
           /\ Issued(r)[2] # "fail") =>
              /\ LastSegment(loc[r].image_url) \notin blobs'
              /\ pc'[r] = "done" =>
                    /\ resp'[r].status = 200
                    /\ \A p \in GetProducts(rows') : p.id # loc[r].product_id]_vars

\* C5 (as claimed): a DeleteOne whose blob delete found no blob, and whose
\* database calls did not fail, has deleted the row and answered 200.
C5_NotFoundTolerated ==
    \A r \in Requests :
        (/\ HasCall(r, "blob_delete", "notfound")
         /\ pc[r] = "done"
         /\ ~HasCall(r, "row_delete", "fail")) =>
            /\ resp[r].status = 200
            /\ HasCall(r, "row_delete", "ok")

\* C6: a DeleteOne of a row with an image reaches its row delete only with the
\* blob delete issued and returned before it; a blob delete that fails with a
\* storage error ends the request with 500 in that step, the rows unchanged,
\* and no row delete is ever issued by that request.
C6_BlobBeforeRow ==
    /\ [](\A r \in Requests :
            /\ (pc[r] = "del_row" /\ Truthy(loc[r].image_url)) =>
                  calls[r] = << <<"get", "ok">>, <<"blob_delete", "ok">> >>
            /\ HasCall(r, "blob_delete", "fail") =>
                  /\ pc[r] = "done" /\ resp[r].status = 500
                  /\ "row_delete" \notin CallKinds(r))
    /\ [][\A r \in Requests :
            (pc[r] = "del_blob" /\ Stepped(r) /\ Issued(r) = <<"blob_delete", "fail">>) =>
                /\ rows' = rows
                /\ GetProducts(rows') = GetProducts(rows)
                /\ pc'[r] = "done" /\ resp'[r].status = 500]_vars

C6_Witness ==
    \E r \in Requests :
        /\ HasCall(r, "blob_delete", "fail") /\ pc[r] = "done"
        /\ \E p \in rows : Truthy(p.image_url)

\* C7: a DeleteOne whose id has no row ends at the lookup: 404 when the lookup
\* itself succeeds, the rows and the blobs unchanged, and no blob-store call
\* and no database write issued.
C7_MissingIdIs404 ==
    [][\A r \in Requests :
          (/\ pc[r] = "del_lookup"
           /\ ~\E p \in rows : p.id = loc[r].product_id
           /\ Stepped(r)) =>
              /\ pc'[r] = "done"
              /\ Issued(r) = <<"get", "ok">> => resp'[r].status = 404
              /\ rows' = rows /\ blobs' = blobs
              /\ CallKinds(r)' \cap (Writes \cup BlobCalls) = {}]_vars

C7_Witness ==
    \E r \in Requests :
        /\ resp[r].op = "delete" /\ resp[r].status = 404 /\ pc[r] = "done"
        /\ rows # {} /\ blobs # {}

\* C8: DeleteAll issues no blob-store call and leaves the set of blobs as it
\* was, so the blobs of the rows it deletes stay in the store.
C8_DeleteAllKeepsBlobs ==
    [][\A r \in Requests :
          (pc[r] = "del_all" /\ Stepped(r)) =>
              /\ blobs' = blobs
              /\ CallKinds(r)' \cap BlobCalls = {}
              /\ \A p \in rows :
                    (Truthy(p.image_url) /\ LastSegment(p.image_url) \in blobs) =>
                        LastSegment(p.image_url) \in blobs']_vars

C8_Witness ==
    \E r \in Requests :
        /\ resp[r].op = "delete_all" /\ resp[r].status = 200 /\ resp[r].num_deleted > 0
        /\ rows = {} /\ blobs # {}

\* C9: a DeleteAll that succeeds leaves no row, List is then empty, and the
\* count it reports is the number of rows there were when it ran.
C9_DeleteAllCount ==
    [][\A r \in Requests :
          (pc[r] = "del_all" /\ Stepped(r) /\ resp'[r].status = 200) =>
              /\ rows' = {}
              /\ GetProducts(rows') = {}
              /\ resp'[r].num_deleted = Cardinality(rows)]_vars

C9_Witness ==
    \E r \in Requests :
        /\ resp[r].op = "delete_all" /\ resp[r].status = 200
        /\ resp[r].num_deleted = MaxId /\ rows = {}

\* C10: every committed row with an image_url names a blob whose upload had
\* returned successfully when the row was committed.
C10_RowImpliesPut ==
    \A p \in rows : Truthy(p.image_url) => LastSegment(p.image_url) \in putOk

C10_Witness ==
    /\ \E p \in rows : Truthy(p.image_url)
    /\ \E r \in Requests : pc[r] \in {"add_put", "add_insert"}

\* no request is in flight
Quiescent == \A r \in Requests : Free(r)

\* C11 (as claimed): in every quiescent state reached by creates and single
\* deletes, none of whose calls fails, every row with an image_url names a
\* blob that is in the store.
C11_QuiescentRowsHaveBlobs ==
    Quiescent =>
        \A p \in rows : Truthy(p.image_url) => LastSegment(p.image_url) \in blobs

\* C12: a create with an image whose upload succeeded and whose insert fails
\* answers 500 in that step; no row is added, the uploaded blob stays in the
\* store, and the request issues no blob delete.
C12_InsertFailLeavesBlob ==
    [][\A r \in Requests :
          (/\ pc[r] = "add_insert"
           /\ HasCall(r, "put", "ok")
           /\ Stepped(r)
           /\ Issued(r) = <<"insert", "fail">>) =>
              /\ pc'[r] = "done" /\ resp'[r].status = 500
              /\ rows' = rows
              /\ blobs' = blobs
              /\ LastSegment(loc[r].image_url) \in blobs'
              /\ "blob_delete" \notin CallKinds(r)']_vars

C12_Witness ==
    \E r \in Requests :
        /\ calls[r] = << <<"put", "ok">>, <<"insert", "fail">> >>
        /\ pc[r] = "done" /\ resp[r].status = 500
        /\ blobs # {}

\* C13: a search whose q is absent or empty returns, in every catalog, the
\* same products a List returns there.
C13_EmptySearchIsList ==
    [][\A r \in Requests :
          /\ (pc[r] = "list_query" /\ Stepped(r) /\ resp'[r].status = 200) =>
                resp'[r].products = GetProducts(rows)
          /\ (/\ pc[r] = "search_query" /\ loc[r].q \in {None, <<>>}
              /\ Stepped(r) /\ resp'[r].status = 200) =>
                /\ resp'[r].products = GetProducts(rows)
                /\ Cardinality(resp'[r].products) = Cardinality(rows)]_vars

C13_Witness ==
    \E r \in Requests :
        /\ resp[r].op = "search" /\ resp[r].status = 200 /\ pc[r] = "done"
        /\ HasCall(r, "select_all", "ok")
        /\ Cardinality(resp[r].products) = MaxSearchRows

\* name contains q as a literal substring, compared case-insensitively
ContainsCI(name, q) ==
    \E i \in 1..(Len(name) - Len(q) + 1) :
        SubSeq(Lower(name), i, i + Len(q) - 1) = Lower(q)

\* C14 (as claimed): a search with a non-empty q returns exactly the products
\* whose name contains q as a literal substring, compared case-insensitively.
C14_SearchIsLiteralSubstring ==
    [][\A r \in Requests :
          (/\ pc[r] = "search_query" /\ loc[r].q # None /\ loc[r].q # <<>>
           /\ Stepped(r) /\ resp'[r].status = 200) =>
              resp'[r].products =
                  GetProducts({p \in rows : ContainsCI(p.name, loc[r].q)})]_vars

\* C15: a create with valid name and price and no image that answers 201 has
\* added exactly one row and issued no blob-store call; the row's id differs
\* from the id of every row there was, and List and a search for its name
\* report it with image_url "".
C15_CreateWithoutImage ==
    [][\A r \in Requests :
          (/\ pc[r] = "add_insert" /\ ~Truthy(loc[r].file)
           /\ Stepped(r) /\ resp'[r].status = 201) =>
              /\ Cardinality(rows') = Cardinality(rows) + 1
              /\ CallKinds(r)' \cap BlobCalls = {}
              /\ \E new \in rows' \ rows :
                    /\ rows' = rows \cup {new}
                    /\ \A old \in rows : old.id # new.id
                    /\ \E j \in GetProducts(rows') : j.id = new.id /\ j.image_url = <<>>
                    /\ \E j \in SearchResults(QueryOf(new.name), rows') :
                          j.id = new.id /\ j.image_url = <<>>
                    /\ \A j \in GetProducts(rows') \cup SearchResults(QueryOf(new.name), rows') :
                          j.id = new.id => j.image_url = <<>>]_vars

C15_Witness ==
    /\ \E p \in rows : p.image_url = None /\ p.id = MaxId
    /\ \E r \in Requests :
          resp[r].op = "list" /\ resp[r].status = 200
              /\ \E j \in resp[r].products : j.id = MaxId /\ j.image_url = <<>>

\* C16: a blob-store or database call that fails is the last call its request
\* issues, and the request has then answered 500 with the error as details.
C16_FirstFailureEndsRequest ==
    \A r \in Requests :
        \A i \in 1..Len(calls[r]) :
            calls[r][i][2] \in {"fail", "notfound"} =>
                /\ i = Len(calls[r])
                /\ pc[r] = "done"
                /\ resp[r].status = 500
                /\ resp[r].body \in {"StorageError", "RepositoryError", "ResourceNotFoundError"}

C16_Witness ==
    \E r \in Requests :
        /\ resp[r].op = "search" /\ resp[r].status = 500
        /\ calls[r] = << <<"select_like", "fail">> >>
        /\ rows # {}

\* C17: a step of a create changes the rows exactly when it answers 201, and
\* then adds exactly one row; a step that answers 400 or 500 leaves the rows
\* as they were.
C17_CreateAllOrNothing ==
    [][\A r \in Requests :
          (pc[r] \in {"add_validate", "add_put", "add_insert"} /\ Stepped(r)) =>
              /\ (resp'[r].status = 201) <=> (rows' # rows)
              /\ resp'[r].status = 201 =>
                    /\ rows \subseteq rows'
                    /\ Cardinality(rows' \ rows) = 1
                    /\ HasCall(r, "insert", "ok")'
              /\ resp'[r].status \in {400, 500} => rows' = rows]_vars

C17_Witness ==
    \E r \in Requests :
        /\ resp[r].op = "add" /\ resp[r].status = 500 /\ pc[r] = "done"
        /\ HasCall(r, "insert", "fail")
        /\ rows # {}

\* C18: no step changes a field of a row that stays: a row of the next state
\* that has the id of a present row is that row; ids are handed out once, in
\* increasing order; and List reports every row with the fields it has.
C18_RowsNeverChange ==
    /\ [](\A p \in rows : p.id < nextId)
    /\ [][/\ \A p \in rows, q \in rows' : q.id = p.id => q = p
          /\ \A q \in rows' \ rows : q.id = nextId
          /\ nextId' >= nextId
          /\ \A r \in Requests :
                (pc[r] = "list_query" /\ Stepped(r) /\ resp'[r].status = 200) =>
                    \A p \in rows : \E j \in resp'[r].products :
                        /\ j.id = p.id /\ j.name = p.name /\ j.price = p.price
                        /\ j.description = p.description
                        /\ j.image_url = (IF p.image_url = None THEN <<>> ELSE p.image_url)]_vars

C18_Witness ==
    /\ Cardinality(rows) = 1 /\ nextId = MaxId + 1
    /\ \E p \in rows : Truthy(p.image_url)
    /\ \E r \in Requests : resp[r].op = "list" /\ resp[r].status = 200 /\ resp[r].products # {}

\* C19: for a create with an image, the last path segment of the image_url it
\* stores is the sanitized name it gave to the upload, and the image_url is
\* the account/container prefix followed by that name alone; so the blob a
\* DeleteOne derives from a row is one that was put, and rows whose sanitized
\* names agree carry the same image_url.
C19_BlobNameRoundTrip ==
    /\ \A r \in Requests :
          (pc[r] = "add_insert" /\ Truthy(loc[r].file)) =>
              /\ secure_filename(loc[r].file) \in putOk
              /\ LastSegment(loc[r].image_url) = secure_filename(loc[r].file)
              /\ loc[r].image_url = ImageUrl(secure_filename(loc[r].file))
    /\ \A r \in Requests :
          pc[r] = "del_blob" => LastSegment(loc[r].image_url) \in putOk
    /\ \A p \in rows :
          Truthy(p.image_url) =>
              /\ LastSegment(p.image_url) \in putOk
              /\ p.image_url = ImageUrl(LastSegment(p.image_url))
    /\ \A p \in rows, q \in rows :
          (Truthy(p.image_url) /\ Truthy(q.image_url)
             /\ LastSegment(p.image_url) = LastSegment(q.image_url)) =>
                p.image_url = q.image_url

C19_Witness ==
    /\ \E p \in rows, q \in rows : p.id # q.id /\ Truthy(p.image_url) /\ p.image_url = q.image_url
    /\ \E r \in Requests : pc[r] = "del_blob"
====
